---------------------------- MODULE Spec2Model ----------------------------
(***************************************************************************)
(* A model of the MP4Compressor component (src/src/index.js): the encoder  *)
(* load effect, the file picker, the start handler with its awaits, the    *)
(* log and progress subscriptions, and the download handler.               *)
(*                                                                         *)
(* The encoder (ffmpeg.wasm) runs in a worker that serves the calls made   *)
(* to it in the order they were sent; `queue` holds the calls sent and not *)
(* yet answered.  An action named ...Done is the answer to the call at the *)
(* head of the queue together with the continuation of the handler that    *)
(* awaited it, up to its next await.                                       *)
(*                                                                         *)
(* progress is kept in half percents (the log heuristic adds 0.5), so the  *)
(* value the component shows is progress / 2.                              *)
(***************************************************************************)
EXTENDS Integers, Sequences, FiniteSets, TLC

VARIABLES
    ffmpegRef,      \* ffmpegRef.current: 0 is null, n > 0 the n-th FFmpeg object
    ffmpegReady,    \* useState(false)
    loadingMsg,     \* useState("Initializing encoder...")
    logLines,       \* useState([])
    file,           \* useState(null): NoFile or the picked file
    outputBlob,     \* useState(null): NoBlob or the blob of the output read
    processing,     \* useState(false)
    progress,       \* useState(0), in half percents
    settings,       \* preset, crf, resolution, audioBitrate, copyMetadata
    effectRuns,     \* how many times the mount effect has run
    loadPc,         \* position of load() in each run of the mount effect
    created,        \* number of FFmpeg objects constructed
    listeners,      \* number of log/progress subscription pairs registered
    jobs,           \* the invocations of start(): position and closure
    cur,            \* the latest invocation of start(), 0 before the first
    queue,          \* calls sent to the encoder worker, oldest first
    fs,             \* the encoder's virtual storage
    logSeq,         \* number of numbered log lines the encoder has emitted
    lastDownload    \* the anchor download() clicks, with name and blob; NoDownload once removed

vars == <<ffmpegRef, ffmpegReady, loadingMsg, logLines, file, outputBlob,
          processing, progress, settings, effectRuns, loadPc, created,
          listeners, jobs, cur, queue, fs, logSeq, lastDownload>>

uiVars == <<logLines, file, outputBlob, processing, progress>>
loadVars == <<ffmpegRef, ffmpegReady, loadingMsg, effectRuns, loadPc, created, listeners>>
jobVars == <<jobs, cur, queue, fs>>

-----------------------------------------------------------------------------
(* Bounds of the model *)

MaxEffectRuns == 2
MaxJobs == 2
MaxLogLines == 2
MaxBurst == 202

(* Constants of the program *)

LogCap == 200
HeuristicCeiling == 95
FullPercent == 100

NoFile == "null"
NoBlob == [none |-> TRUE]
NoData == [none |-> TRUE]
NoDownload == [none |-> TRUE]

InitializingMsg == "Initializing encoder... (~20-30 MB)"
FetchingMsg == "Fetching encoder core..."
FailedMsg == "Failed to load encoder. Check your internet connection."

inputName == "input.mp4"
outputName == "output.mp4"

Files == {"clip.mp4", "holiday.mov"}

Presets == {"ultrafast", "superfast", "veryfast", "faster", "fast", "medium",
            "slow", "slower", "veryslow"}
Crfs == 18..28
Resolutions == {"source", "1080p", "720p", "480p"}
AudioBitrates == {"64k", "96k", "128k", "160k", "192k", "256k"}

EncodeSettings == [preset : Presets, crf : Crfs, resolution : Resolutions,
                   audioBitrate : AudioBitrates, copyMetadata : BOOLEAN]

DefaultSettings == [preset |-> "medium", crf |-> 23, resolution |-> "source",
                    audioBitrate |-> "128k", copyMetadata |-> TRUE]


-----------------------------------------------------------------------------
(* Strings *)

Digits == <<"0", "1", "2", "3", "4", "5", "6", "7", "8", "9">>

IsDigit(c) == \E d \in 1..10 : Digits[d] = c

\* String(n) for a non-negative integer
RECURSIVE String(_)
String(n) ==
    IF n < 10 THEN Digits[n + 1] ELSE String(n \div 10) \o Digits[(n % 10) + 1]

\* s.endsWith(suffix)
endsWith(s, suffix) ==
    /\ Len(suffix) <= Len(s)
    /\ SubSeq(s, Len(s) - Len(suffix) + 1, Len(s)) = suffix

CharAt(s, i) == SubSeq(s, i, i)

\* /time=\d{2}:\d{2}:\d{2}/.test(message)
TimeRegexTest(message) ==
    \E i \in 1..(Len(message) - 12) :
        /\ SubSeq(message, i, i + 4) = "time="
        /\ IsDigit(CharAt(message, i + 5)) /\ IsDigit(CharAt(message, i + 6))
        /\ CharAt(message, i + 7) = ":"
        /\ IsDigit(CharAt(message, i + 8)) /\ IsDigit(CharAt(message, i + 9))
        /\ CharAt(message, i + 10) = ":"
        /\ IsDigit(CharAt(message, i + 11)) /\ IsDigit(CharAt(message, i + 12))

-----------------------------------------------------------------------------
(* The argument list built by start() *)

\* Faulty variant: 720p falls through to the last branch
ScaleHeightFallsThrough(resolution) == IF resolution = "1080p" THEN 1080 ELSE 480

ScaleHeight(resolution) ==
    IF resolution = "1080p" THEN 1080 ELSE IF resolution = "720p" THEN 720 ELSE 480

\* Faulty variant: the metadata flags are pushed whatever copyMetadata is
MetadataArgsAlways(s) == <<"-map_metadata", "0", "-movflags", "use_metadata_tags">>

MetadataArgs(s) ==
    IF s.copyMetadata
    THEN <<"-map_metadata", "0", "-movflags", "use_metadata_tags">>
    ELSE <<>>

VideoArgs(s) == <<"-c:v", "libx264", "-preset", s.preset, "-crf", String(s.crf)>>

ScaleArgs(s) ==
    IF s.resolution # "source"
    THEN <<"-vf", "scale=-2:" \o String(ScaleHeight(s.resolution))>>
    ELSE <<>>

AudioArgs(s) == <<"-c:a", "aac", "-b:a", s.audioBitrate>>

FaststartArgs == <<"-movflags", "+faststart">>

\* Faulty variant: the audio settings are pushed before the video settings
BuildArgsAudioFirst(s) ==
    <<"-i", inputName>> \o MetadataArgs(s) \o AudioArgs(s) \o VideoArgs(s)
        \o ScaleArgs(s) \o FaststartArgs \o <<outputName>>

BuildArgs(s) ==
    <<"-i", inputName>> \o MetadataArgs(s) \o VideoArgs(s) \o ScaleArgs(s)
        \o AudioArgs(s) \o FaststartArgs \o <<outputName>>

-----------------------------------------------------------------------------
(* The log and progress subscriptions *)

Min(a, b) == IF a < b THEN a ELSE b

\* Math.round(x) for x = tenths / 10: the nearest integer, halves rounded up
RoundTenths(tenths) == (tenths + 5) \div 10

\* Faulty variant: the nudge without its ceiling
NudgeWithoutCeiling(p) == p + 1

\* (p) => (p < 95 ? p + 0.5 : p), on half percents
Nudge(p) == IF p < 2 * HeuristicCeiling THEN p + 1 ELSE p

RECURSIVE NudgeTimes(_, _)
NudgeTimes(p, n) == IF n = 0 THEN p ELSE NudgeTimes(Nudge(p), n - 1)

\* Faulty variant: the log is never cut
CapLogNever(next) == next

\* next.slice(-200)
CapLog(next) ==
    IF Len(next) > LogCap THEN SubSeq(next, Len(next) - LogCap + 1, Len(next)) ELSE next

\* Math.min(100, Math.round(progress * 100)) for progress = permille / 1000,
\* in half percents
ProgressValue(permille) == 2 * Min(FullPercent, RoundTenths(permille))

-----------------------------------------------------------------------------
(* Inputs *)

\* A File is identified by its name; fetchFile(file) gives its bytes
fetchFile(f) == [bytesOf |-> f]

\* What the encoder writes to outputName for an input and an argument list
Encode(data, args) == [encoded |-> data, args |-> args]

\* Faulty variant: the blob is built without the bytes read
BlobWithoutData(data) == [data |-> NoData, type |-> "video/mp4"]

\* new Blob([data], { type: "video/mp4" })
Blob(data) == [data |-> data, type |-> "video/mp4"]

\* Log lines the encoder emits: with a timestamp, with a malformed one, without
LogMessages == {"frame=  10 fps=0.0 q=28.0 size=1kB time=00:00:01.50 bitrate=5.1kbits/s",
                "size=1kB time=0:00:01 bitrate=N/A",
                "Stream mapping:"}

\* The n-th numbered status line of a run
FrameLine(n) == "frame=" \o String(n) \o " time=00:00:01.00"

\* Fractions the encoder reports with a progress event, in thousandths
ProgressReports ==
    {[nan |-> FALSE, permille |-> x] : x \in {-500, 944, 1000, 1500}}
        \cup {[nan |-> TRUE, permille |-> 0]}

\* Number.isNaN(progress)
isNaN(reported) == reported.nan

-----------------------------------------------------------------------------
(* State *)

IdleJob == [pc |-> "idle", file |-> NoFile, settings |-> DefaultSettings,
            alerted |-> FALSE, result |-> "none", exit |-> "none"]

JobIds == 1..MaxJobs

EmptyFs == [input |-> NoData, output |-> NoData]

InitWith(chosen) ==
    /\ ffmpegRef = 0
    /\ ffmpegReady = FALSE
    /\ loadingMsg = InitializingMsg
    /\ logLines = <<>>
    /\ file = NoFile
    /\ outputBlob = NoBlob
    /\ processing = FALSE
    /\ progress = 0
    /\ settings = chosen
    /\ effectRuns = 0
    /\ loadPc = [i \in 1..MaxEffectRuns |-> "none"]
    /\ created = 0
    /\ listeners = 0
    /\ jobs = [j \in JobIds |-> IdleJob]
    /\ cur = 0
    /\ queue = <<>>
    /\ fs = EmptyFs
    /\ logSeq = 0
    /\ lastDownload = NoDownload

Init == InitWith(DefaultSettings)

-----------------------------------------------------------------------------
(* The mount effect: load() *)

\* React runs the mount effects of one commit back to back (twice under
\* <React.StrictMode> in a development build), before any other task
Mounting ==
    /\ file = NoFile
    /\ \A i \in 1..effectRuns : loadPc[i] \in {"coreURL", "returned"}

\* Faulty variant: load() without `if (ffmpegRef.current) return;`
MountEffectWithoutGuard ==
    /\ effectRuns < MaxEffectRuns
    /\ effectRuns > 0 => Mounting
    /\ effectRuns' = effectRuns + 1
    /\ created' = created + 1
    /\ ffmpegRef' = created + 1
    /\ listeners' = listeners + 1
    /\ loadingMsg' = FetchingMsg
    /\ loadPc' = [loadPc EXCEPT ![effectRuns + 1] = "coreURL"]
    /\ UNCHANGED <<ffmpegReady, uiVars, settings, jobVars, logSeq>>
    /\ lastDownload' = NoDownload

\* useEffect(() => { ... load(); }, []): up to the first await of load()
MountEffect ==
    /\ effectRuns < MaxEffectRuns
    /\ effectRuns > 0 => Mounting
    /\ effectRuns' = effectRuns + 1
    /\ IF ffmpegRef # 0
       THEN /\ loadPc' = [loadPc EXCEPT ![effectRuns + 1] = "returned"]
            /\ UNCHANGED <<ffmpegRef, created, listeners, loadingMsg>>
       ELSE /\ created' = created + 1
            /\ ffmpegRef' = created + 1
            /\ listeners' = listeners + 1
            /\ loadingMsg' = FetchingMsg
            /\ loadPc' = [loadPc EXCEPT ![effectRuns + 1] = "coreURL"]
    /\ UNCHANGED <<ffmpegReady, uiVars, settings, jobVars, logSeq>>
    /\ lastDownload' = NoDownload

NextLoadPc(pc) ==
    IF pc = "coreURL" THEN "wasmURL"
    ELSE IF pc = "wasmURL" THEN "workerURL"
    ELSE IF pc = "workerURL" THEN "load"
    ELSE "loaded"

\* One of the awaits of the try block resolves
LoadStepOk(i) ==
    /\ loadPc[i] \in {"coreURL", "wasmURL", "workerURL", "load"}
    /\ loadPc' = [loadPc EXCEPT ![i] = NextLoadPc(loadPc[i])]
    /\ IF loadPc[i] = "load"
       THEN ffmpegReady' = TRUE /\ loadingMsg' = ""
       ELSE UNCHANGED <<ffmpegReady, loadingMsg>>
    /\ UNCHANGED <<ffmpegRef, effectRuns, created, listeners, uiVars, settings,
                   jobVars, logSeq>>
    /\ lastDownload' = NoDownload

\* One of the awaits of the try block rejects: the catch block
LoadStepFails(i) ==
    /\ loadPc[i] \in {"coreURL", "wasmURL", "workerURL", "load"}
    /\ loadPc' = [loadPc EXCEPT ![i] = "failed"]
    /\ loadingMsg' = FailedMsg
    /\ UNCHANGED <<ffmpegRef, ffmpegReady, effectRuns, created, listeners, uiVars,
                   settings, jobVars, logSeq>>
    /\ lastDownload' = NoDownload

-----------------------------------------------------------------------------
(* The file picker and the settings controls *)

onDrop(picked) ==
    /\ file' = picked
    /\ outputBlob' = NoBlob
    /\ logLines' = <<>>
    /\ progress' = 0
    /\ UNCHANGED <<processing, settings, loadVars, jobVars, logSeq>>
    /\ lastDownload' = NoDownload


\* The setters of the settings controls; none is disabled while a job is encoding
setSetting(changed) ==
    /\ settings' = changed
    /\ UNCHANGED <<uiVars, loadVars, jobVars, logSeq>>
    /\ lastDownload' = NoDownload

\* onChange={(e) => setCrf(parseInt(e.target.value))}
setCrf(value) == setSetting([settings EXCEPT !.crf = value])

\* onChange={(e) => setPreset(e.target.value)}
setPreset(value) == setSetting([settings EXCEPT !.preset = value])

\* onChange={(e) => setResolution(e.target.value)}
setResolution(value) == setSetting([settings EXCEPT !.resolution = value])

\* onChange={(e) => setAudioBitrate(e.target.value)}
setAudioBitrate(value) == setSetting([settings EXCEPT !.audioBitrate = value])

\* onChange={(e) => setCopyMetadata(e.target.checked)}
setCopyMetadata(checked) == setSetting([settings EXCEPT !.copyMetadata = checked])

\* Faulty variant: the start button is not disabled while a job is encoding
StartDisabledNotWhileEncoding == ~ffmpegReady \/ file = NoFile

\* Faulty variant: the start button is not disabled while the encoder is not ready
StartDisabledNotUntilReady == file = NoFile \/ processing

\* <button disabled={!ffmpegReady || !file || processing}>
StartDisabled == ~ffmpegReady \/ file = NoFile \/ processing

\* {outputBlob && (<button onClick={download}>)}
DownloadShown == outputBlob # NoBlob

-----------------------------------------------------------------------------
(* start() *)

\* The positions of start() from the call to the end of its try block
InTry == {"fetchFile", "writeFile", "exec", "readFile"}

FreeSlot(j) ==
    /\ jobs[j].pc \in {"idle", "finished"}
    /\ \A k \in JobIds : k < j => jobs[k].pc \notin {"idle", "finished"}

Send(call) == Append(queue, call)

\* The call at the head of the queue is answered and the caller sends `call`
Answer(call) == Append(Tail(queue), call)

Awaiting(j, op) ==
    /\ queue # <<>>
    /\ Head(queue).job = j
    /\ Head(queue).op = op

\* start(), up to await fetchFile(file)
start(j) ==
    IF file = NoFile \/ ffmpegRef = 0
    THEN UNCHANGED vars
    ELSE /\ processing' = TRUE
         /\ outputBlob' = NoBlob
         /\ progress' = 0
         /\ jobs' = [jobs EXCEPT ![j] = [pc |-> "fetchFile", file |-> file,
                                         settings |-> settings, alerted |-> FALSE,
                                         result |-> "none", exit |-> "none"]]
         /\ cur' = j
         /\ UNCHANGED <<logLines, file, settings, loadVars, queue, fs, logSeq>>
         /\ lastDownload' = NoDownload

\* A click on the start button
ClickStart(j) ==
    /\ ~StartDisabled
    /\ FreeSlot(j)
    /\ start(j)

\* Faulty variant: writeFile is not awaited, exec is sent right behind it
FetchFileOkWriteNotAwaited(j) ==
    /\ jobs[j].pc = "fetchFile"
    /\ jobs' = [jobs EXCEPT ![j].pc = "exec"]
    /\ queue' = Send([job |-> j, op |-> "writeFile", name |-> inputName,
                      data |-> fetchFile(jobs[j].file)])
                \o <<[job |-> j, op |-> "exec", args |-> BuildArgs(jobs[j].settings)]>>
    /\ UNCHANGED <<uiVars, settings, loadVars, cur, fs, logSeq>>
    /\ lastDownload' = NoDownload

\* fetchFile(file) resolves: ffmpeg.writeFile(inputName, ...) is sent
FetchFileOk(j) ==
    /\ jobs[j].pc = "fetchFile"
    /\ jobs' = [jobs EXCEPT ![j].pc = "writeFile"]
    /\ queue' = Send([job |-> j, op |-> "writeFile", name |-> inputName,
                      data |-> fetchFile(jobs[j].file)])
    /\ UNCHANGED <<uiVars, settings, loadVars, cur, fs, logSeq>>
    /\ lastDownload' = NoDownload

\* fetchFile(file) rejects: start() rejects before its try block
FetchFileFails(j) ==
    /\ jobs[j].pc = "fetchFile"
    /\ jobs' = [jobs EXCEPT ![j].pc = "rejected"]
    /\ UNCHANGED <<uiVars, settings, loadVars, cur, queue, fs, logSeq>>
    /\ lastDownload' = NoDownload

\* Faulty variant: the arguments are built from the settings on the screen
\* when writeFile resolves, not from those start() was called with
WriteFileOkReadsScreen(j) ==
    /\ Awaiting(j, "writeFile")
    /\ fs' = [fs EXCEPT !.input = Head(queue).data]
    /\ jobs' = [jobs EXCEPT ![j].pc = "exec"]
    /\ queue' = Answer([job |-> j, op |-> "exec", args |-> BuildArgs(settings)])
    /\ UNCHANGED <<uiVars, settings, loadVars, cur, logSeq>>
    /\ lastDownload' = NoDownload

\* writeFile resolves: the arguments are built and ffmpeg.exec(args) is sent
WriteFileOk(j) ==
    /\ Awaiting(j, "writeFile")
    /\ fs' = [fs EXCEPT !.input = Head(queue).data]
    /\ jobs' = [jobs EXCEPT ![j].pc = "exec"]
    /\ queue' = Answer([job |-> j, op |-> "exec", args |-> BuildArgs(jobs[j].settings)])
    /\ UNCHANGED <<uiVars, settings, loadVars, cur, logSeq>>
    /\ lastDownload' = NoDownload

\* writeFile rejects: start() rejects before its try block
WriteFileFails(j) ==
    /\ Awaiting(j, "writeFile")
    /\ jobs' = [jobs EXCEPT ![j].pc = "rejected"]
    /\ queue' = Tail(queue)
    /\ UNCHANGED <<uiVars, settings, loadVars, cur, fs, logSeq>>
    /\ lastDownload' = NoDownload

\* Faulty variant: the encoding flag is cleared in the try block only, not in finally
CatchFinallyKeepsEncoding(j) ==
    /\ jobs' = [jobs EXCEPT ![j].pc = "deleteInput", ![j].alerted = TRUE,
                            ![j].result = "failed"]
    /\ processing' = processing
    /\ queue' = Answer([job |-> j, op |-> "deleteFile", name |-> inputName])

\* catch (e) { alert(...) } finally { setProcessing(false); deleteFile(inputName) }
CatchFinally(j) ==
    /\ jobs' = [jobs EXCEPT ![j].pc = "deleteInput", ![j].alerted = TRUE,
                            ![j].result = "failed"]
    /\ processing' = FALSE
    /\ queue' = Answer([job |-> j, op |-> "deleteFile", name |-> inputName])

\* Faulty variant: the encoding flag is cleared as soon as exec resolves, so
\* that the next job can start while this one reads its output and cleans up
ExecOkClearsEncoding(j) ==
    /\ Awaiting(j, "exec")
    /\ fs.input # NoData
    /\ fs' = [fs EXCEPT !.output = Encode(fs.input, Head(queue).args)]
    /\ jobs' = [jobs EXCEPT ![j].pc = "readFile", ![j].exit = "0"]
    /\ queue' = Answer([job |-> j, op |-> "readFile", name |-> outputName])
    /\ processing' = FALSE
    /\ UNCHANGED <<logLines, file, outputBlob, progress, settings, loadVars, cur, logSeq>>
    /\ lastDownload' = NoDownload

\* exec resolves with exit code 0 and the output written: ffmpeg.readFile(outputName)
\* is sent (start() discards the exit code; the job keeps it for the properties)
ExecOk(j) ==
    /\ Awaiting(j, "exec")
    /\ fs.input # NoData
    /\ fs' = [fs EXCEPT !.output = Encode(fs.input, Head(queue).args)]
    /\ jobs' = [jobs EXCEPT ![j].pc = "readFile", ![j].exit = "0"]
    /\ queue' = Answer([job |-> j, op |-> "readFile", name |-> outputName])
    /\ UNCHANGED <<uiVars, settings, loadVars, cur, logSeq>>
    /\ lastDownload' = NoDownload

\* exec resolves with a non-zero exit code and no output written
ExecExitsNonZero(j) ==
    /\ Awaiting(j, "exec")
    /\ jobs' = [jobs EXCEPT ![j].pc = "readFile", ![j].exit = "1"]
    /\ queue' = Answer([job |-> j, op |-> "readFile", name |-> outputName])
    /\ UNCHANGED <<uiVars, settings, loadVars, cur, fs, logSeq>>
    /\ lastDownload' = NoDownload

\* exec rejects
ExecThrows(j) ==
    /\ Awaiting(j, "exec")
    /\ CatchFinally(j)
    /\ UNCHANGED <<logLines, file, outputBlob, progress, settings, loadVars, cur,
                   fs, logSeq>>
    /\ lastDownload' = NoDownload

\* readFile answers: the rest of the try block, or the catch block, and finally
ReadFileDone(j) ==
    /\ Awaiting(j, "readFile")
    /\ IF fs.output # NoData
       THEN /\ outputBlob' = Blob(fs.output)
            /\ progress' = 2 * FullPercent
            /\ processing' = FALSE
            /\ jobs' = [jobs EXCEPT ![j].pc = "deleteInput", ![j].result = "done"]
            /\ queue' = Answer([job |-> j, op |-> "deleteFile", name |-> inputName])
       ELSE /\ CatchFinally(j)
            /\ UNCHANGED <<outputBlob, progress>>
    /\ UNCHANGED <<logLines, file, settings, loadVars, cur, fs, logSeq>>
    /\ lastDownload' = NoDownload

\* start() has returned: its closure is gone, its outcome stays on the screen
Returned(job) == [IdleJob EXCEPT !.pc = "finished", !.alerted = job.alerted,
                                 !.result = job.result]

\* deleteFile(inputName) answers: deleteFile(outputName) is sent, or, if there is
\* no such file, it throws into catch {} and start() returns
DeleteInputDone(j) ==
    /\ Awaiting(j, "deleteFile")
    /\ jobs[j].pc = "deleteInput"
    /\ IF fs.input # NoData
       THEN /\ fs' = [fs EXCEPT !.input = NoData]
            /\ jobs' = [jobs EXCEPT ![j].pc = "deleteOutput"]
            /\ queue' = Answer([job |-> j, op |-> "deleteFile", name |-> outputName])
       ELSE /\ jobs' = [jobs EXCEPT ![j] = Returned(jobs[j])]
            /\ queue' = Tail(queue)
            /\ UNCHANGED fs
    /\ UNCHANGED <<uiVars, settings, loadVars, cur, logSeq>>
    /\ lastDownload' = NoDownload

\* deleteFile(inputName) rejects for a reason of the encoder's: catch {} and
\* start() returns without sending deleteFile(outputName)
DeleteInputFails(j) ==
    /\ Awaiting(j, "deleteFile")
    /\ jobs[j].pc = "deleteInput"
    /\ jobs' = [jobs EXCEPT ![j] = Returned(jobs[j])]
    /\ queue' = Tail(queue)
    /\ UNCHANGED <<uiVars, settings, loadVars, cur, fs, logSeq>>
    /\ lastDownload' = NoDownload

\* deleteFile(outputName) answers, or throws into catch {} if there is no such
\* file: start() returns
DeleteOutputDone(j) ==
    /\ Awaiting(j, "deleteFile")
    /\ jobs[j].pc = "deleteOutput"
    /\ fs' = [fs EXCEPT !.output = NoData]
    /\ jobs' = [jobs EXCEPT ![j] = Returned(jobs[j])]
    /\ queue' = Tail(queue)
    /\ UNCHANGED <<uiVars, settings, loadVars, cur, logSeq>>
    /\ lastDownload' = NoDownload

\* deleteFile(outputName) rejects for a reason of the encoder's: catch {}
DeleteOutputFails(j) ==
    /\ Awaiting(j, "deleteFile")
    /\ jobs[j].pc = "deleteOutput"
    /\ jobs' = [jobs EXCEPT ![j] = Returned(jobs[j])]
    /\ queue' = Tail(queue)
    /\ UNCHANGED <<uiVars, settings, loadVars, cur, fs, logSeq>>
    /\ lastDownload' = NoDownload

-----------------------------------------------------------------------------
(* Encoder events, delivered while exec is being served *)

ExecRunning == queue # <<>> /\ Head(queue).op = "exec"

\* How many times React runs the updater passed to setLogLines: once, or
\* twice under <React.StrictMode> in a development build
UpdaterRuns == {1, 2}

\* ffmpeg.on("log", ({ message }) => setLogLines((prev) => ...))
LogHandler(message, runs) ==
    /\ logLines' = CapLog(Append(logLines, message))
    /\ progress' = IF TimeRegexTest(message) THEN NudgeTimes(progress, runs) ELSE progress

\* ffmpeg.on("progress", ({ progress }) => ...)
ProgressHandler(reported) ==
    progress' = IF isNaN(reported) THEN progress ELSE ProgressValue(reported.permille)

OnLog(message, runs) ==
    /\ ExecRunning
    /\ listeners > 0
    /\ Len(logLines) < MaxLogLines
    /\ LogHandler(message, runs)
    /\ UNCHANGED <<file, outputBlob, processing, settings, loadVars, jobVars, logSeq>>
    /\ lastDownload' = NoDownload

\* A run of numbered status lines, long enough to fill the log
OnLogBurst(runs) ==
    /\ ExecRunning
    /\ listeners > 0
    /\ logSeq < MaxBurst
    /\ logSeq' = logSeq + 1
    /\ LogHandler(FrameLine(logSeq + 1), runs)
    /\ UNCHANGED <<file, outputBlob, processing, settings, loadVars, jobVars>>
    /\ lastDownload' = NoDownload

OnProgress(reported) ==
    /\ ExecRunning
    /\ listeners > 0
    /\ ProgressHandler(reported)
    /\ UNCHANGED <<logLines, file, outputBlob, processing, settings, loadVars,
                   jobVars, logSeq>>
    /\ lastDownload' = NoDownload

-----------------------------------------------------------------------------
(* download() *)

DownloadName(f) == IF endsWith(f, ".mp4") THEN f ELSE f \o ".mp4"

download ==
    IF outputBlob = NoBlob \/ file = NoFile
    THEN UNCHANGED vars
    ELSE /\ lastDownload' = [name |-> DownloadName(file), blob |-> outputBlob]
         /\ UNCHANGED <<uiVars, settings, loadVars, jobVars, logSeq>>

ClickDownload ==
    /\ DownloadShown
    /\ download

-----------------------------------------------------------------------------
(* The component *)

Load ==
    \/ MountEffect
    \/ \E i \in 1..MaxEffectRuns : LoadStepOk(i)
    \/ \E i \in 1..MaxEffectRuns : LoadStepFails(i)

User ==
    \/ \E picked \in Files : onDrop(picked)
    \/ \E j \in JobIds : ClickStart(j)
    \/ ClickDownload

Job ==
    \/ \E j \in JobIds : FetchFileOk(j)
    \/ \E j \in JobIds : FetchFileFails(j)
    \/ \E j \in JobIds : WriteFileOk(j)
    \/ \E j \in JobIds : WriteFileFails(j)
    \/ \E j \in JobIds : ExecOk(j)
    \/ \E j \in JobIds : ExecExitsNonZero(j)
    \/ \E j \in JobIds : ExecThrows(j)
    \/ \E j \in JobIds : ReadFileDone(j)
    \/ \E j \in JobIds : DeleteInputDone(j)
    \/ \E j \in JobIds : DeleteInputFails(j)
    \/ \E j \in JobIds : DeleteOutputDone(j)
    \/ \E j \in JobIds : DeleteOutputFails(j)

Events ==
    \/ \E m \in LogMessages, runs \in UpdaterRuns : OnLog(m, runs)
    \/ \E r \in ProgressReports : OnProgress(r)

Next == Load \/ User \/ Job \/ Events

Spec == Init /\ [][Next]_vars

-----------------------------------------------------------------------------
(* The argument list for every valid EncodeSettings: the settings are chosen
   before the run and one file is encoded with them *)

InitArgs == \E chosen \in EncodeSettings : InitWith(chosen)

NextArgs ==
    \/ MountEffect
    \/ \E i \in 1..MaxEffectRuns : LoadStepOk(i)
    \/ onDrop("clip.mp4")
    \/ \E j \in JobIds : ClickStart(j)
    \/ \E j \in JobIds : FetchFileOk(j)
    \/ \E j \in JobIds : WriteFileOk(j)
    \/ \E j \in JobIds : ExecOk(j)

SpecArgs == InitArgs /\ [][NextArgs]_vars

-----------------------------------------------------------------------------
(* The settings controls are used before and while one file is encoded *)

\* The values the user moves the controls between
CrfsTried == {23, 28}
PresetsTried == {"medium", "veryslow"}
ResolutionsTried == {"source", "480p"}
AudioBitratesTried == {"128k", "64k"}

NextSettings ==
    \/ MountEffect
    \/ \E i \in 1..MaxEffectRuns : LoadStepOk(i)
    \/ onDrop("clip.mp4")
    \/ \E value \in CrfsTried : setCrf(value)
    \/ \E value \in PresetsTried : setPreset(value)
    \/ \E value \in ResolutionsTried : setResolution(value)
    \/ \E value \in AudioBitratesTried : setAudioBitrate(value)
    \/ \E checked \in BOOLEAN : setCopyMetadata(checked)
    \/ \E j \in JobIds : ClickStart(j)
    \/ \E j \in JobIds : FetchFileOk(j)
    \/ \E j \in JobIds : WriteFileOk(j)
    \/ \E j \in JobIds : ExecOk(j)

SpecSettings == Init /\ [][NextSettings]_vars

-----------------------------------------------------------------------------
(* A long run: the encoder emits enough numbered status lines to fill the log *)

NextLog ==
    \/ MountEffect
    \/ \E i \in 1..MaxEffectRuns : LoadStepOk(i)
    \/ onDrop("clip.mp4")
    \/ \E j \in JobIds : ClickStart(j)
    \/ \E j \in JobIds : FetchFileOk(j)
    \/ \E j \in JobIds : WriteFileOk(j)
    \/ OnLogBurst(1)

SpecLog == Init /\ [][NextLog]_vars

-----------------------------------------------------------------------------
(* Properties *)

\* The status of the job on the screen, read off the latest call of start()
JobStatus ==
    IF cur = 0 THEN "idle"
    ELSE IF jobs[cur].pc \in InTry THEN "encoding"
    ELSE IF jobs[cur].pc = "rejected" THEN "rejected"
    ELSE jobs[cur].result

ActiveJobs == {j \in JobIds : jobs[j].pc \in InTry}

CallsInFlight(ops) == {i \in 1..Len(queue) : queue[i].op \in ops}

\* A step in which start() is entered, or a write or an exec is sent
StartsOrSends ==
    \/ \E j \in JobIds : jobs[j].pc \notin InTry /\ jobs'[j].pc \in InTry
    \/ cur' # cur
    \/ Cardinality({j \in JobIds : jobs'[j].pc \in InTry}) > Cardinality(ActiveJobs)

\* C1: while a job is encoding no start request is accepted (no step enters
\* start() while processing is set), so at most one job is between its start
\* and the end of its try block, the write, exec and read calls in flight are
\* at most one and belong to that job, and at most one exec is in flight.
C1_NoConcurrentStart ==
    /\ [](/\ Cardinality(ActiveJobs) <= 1
          /\ Cardinality(CallsInFlight({"exec"})) <= 1
          /\ Cardinality(CallsInFlight({"writeFile", "exec", "readFile"})) <= 1
          /\ \A i \in CallsInFlight({"writeFile", "exec", "readFile"}) :
                queue[i].job = cur /\ jobs[cur].pc = queue[i].op
          /\ ActiveJobs # {} => processing /\ ActiveJobs = {cur})
    /\ [][processing => ~StartsOrSends]_vars

\* C1 witness: exec is in flight with the encoder ready and a file picked, so
\* that only the encoding flag keeps the start button disabled.
C1_Witness ==
    /\ ExecRunning
    /\ processing
    /\ ffmpegReady
    /\ file # NoFile
    /\ StartDisabled

\* C2 (as claimed): progress is 100 only when the current job is done.
C2_FullOnlyWhenDone == progress = 2 * FullPercent => JobStatus = "done"

\* C3 (as claimed): progress always lies in [0, 100].
C3_ProgressInRange == 0 <= progress /\ progress <= 2 * FullPercent


\* C4: the log never holds more than 200 lines, and a line appended to a log
\* of 200 lines evicts exactly the oldest: the new log is the other 199 lines
\* followed by the new line.
C4_LogCapped ==
    /\ [](Len(logLines) <= LogCap)
    /\ [][(logSeq' = logSeq + 1 /\ Len(logLines) = LogCap)
            => logLines' = Append(Tail(logLines), FrameLine(logSeq'))]_vars

\* C4 witness: a 201st line has been appended to a full log; the log holds
\* the last 200 lines received.
C4_Witness ==
    /\ Len(logLines) = LogCap
    /\ logSeq > LogCap
    /\ logLines[LogCap] = FrameLine(logSeq)
    /\ logLines[1] = FrameLine(logSeq - LogCap + 1)

LoadFailed == \E i \in 1..MaxEffectRuns : loadPc[i] = "failed"

\* C8: once the encoder load has failed, in every state the encoder is not
\* ready, the failure message is shown, the start button is disabled, no
\* other load is running or was made, and no job exists: start() was never
\* entered and nothing was sent to the encoder or written to its storage.
C8_LoadFailureIsPermanent ==
    LoadFailed =>
        /\ ~ffmpegReady
        /\ loadingMsg = FailedMsg
        /\ StartDisabled
        /\ created = 1
        /\ \A i \in 1..MaxEffectRuns : loadPc[i] \in {"none", "returned", "failed"}
        /\ cur = 0
        /\ \A j \in JobIds : jobs[j] = IdleJob
        /\ queue = <<>>
        /\ fs = EmptyFs
        /\ ~processing
        /\ outputBlob = NoBlob
        /\ lastDownload = NoDownload

\* C8 witness: the load has failed and the user has picked a file since.
C8_Witness == LoadFailed /\ file # NoFile

\* C9: the step that answers a successful output read after exec has resolved
\* sets the result to the bytes read (encoded from the job's own input if exec
\* exited with 0), progress to 100 and clears the encoding flag, and the job
\* is done; a job is done only past its try block.
C9_SuccessfulRun ==
    /\ [](\A j \in JobIds : jobs[j].result = "done"
            => jobs[j].pc \in {"deleteInput", "deleteOutput", "finished"})
    /\ [][\A j \in JobIds :
            (jobs[j].pc = "readFile" /\ jobs'[j].pc # "readFile" /\ fs.output # NoData)
                => /\ outputBlob' = [data |-> fs.output, type |-> "video/mp4"]
                   /\ jobs[j].exit = "0" => fs.output.encoded = [bytesOf |-> jobs[j].file]
                   /\ progress' = 2 * FullPercent
                   /\ ~processing'
                   /\ jobs'[j].result = "done"
                   /\ JobStatus' = "done"]_vars

\* C9 witness: a job is done, with its result on the screen at 100 percent.
C9_Witness ==
    /\ JobStatus = "done"
    /\ outputBlob # NoBlob
    /\ progress = 2 * FullPercent
    /\ ~processing

\* C10 (as claimed): the name offered with a download is the name of the
\* input the downloaded result was encoded from, with .mp4 appended if absent.
C10_DownloadNamedAfterInput ==
    lastDownload # NoDownload =>
        \/ lastDownload.name = lastDownload.blob.data.encoded.bytesOf
        \/ /\ ~endsWith(lastDownload.blob.data.encoded.bytesOf, ".mp4")
           /\ lastDownload.name = lastDownload.blob.data.encoded.bytesOf \o ".mp4"


\* The exec calls in flight, each with the settings its start() captured
ExecCalls == {[args |-> queue[i].args, settings |-> jobs[queue[i].job].settings] :
                i \in CallsInFlight({"exec"})}

Positions(args, token) == {i \in 1..Len(args) : args[i] = token}

\* The positions of a flag that is followed by the given value
FlagPositions(args, flag, value) ==
    {i \in 1..(Len(args) - 1) : args[i] = flag /\ args[i + 1] = value}

Once(positions) == Cardinality(positions) = 1

The(positions) == CHOOSE i \in positions : TRUE

CrfText == [c \in Crfs |-> <<"18", "19", "20", "21", "22", "23", "24", "25", "26",
                             "27", "28">>[c - 17]]

HeightText == [r \in Resolutions \ {"source"} |->
                 IF r = "1080p" THEN "1080" ELSE IF r = "720p" THEN "720" ELSE "480"]

\* C5: for every valid EncodeSettings, the argument list passed to exec holds
\* the video codec flag, the preset flag, the quality flag, the audio codec
\* flag, the audio bitrate flag and the fast-start flag exactly once each,
\* each followed by its value, in that relative order.
C5_FlagsOnceInOrder ==
    \A c \in ExecCalls :
        LET a == c.args
            s == c.settings
        IN  /\ s \in EncodeSettings
            /\ Once(Positions(a, "-c:v")) /\ Once(FlagPositions(a, "-c:v", "libx264"))
            /\ Once(Positions(a, "-preset")) /\ Once(FlagPositions(a, "-preset", s.preset))
            /\ Once(Positions(a, "-crf")) /\ Once(FlagPositions(a, "-crf", CrfText[s.crf]))
            /\ Once(Positions(a, "-c:a")) /\ Once(FlagPositions(a, "-c:a", "aac"))
            /\ Once(Positions(a, "-b:a")) /\ Once(FlagPositions(a, "-b:a", s.audioBitrate))
            /\ Once(Positions(a, "+faststart"))
            /\ Once(FlagPositions(a, "-movflags", "+faststart"))
            /\ The(Positions(a, "-c:v")) < The(Positions(a, "-preset"))
            /\ The(Positions(a, "-preset")) < The(Positions(a, "-crf"))
            /\ The(Positions(a, "-crf")) < The(Positions(a, "-c:a"))
            /\ The(Positions(a, "-c:a")) < The(Positions(a, "-b:a"))
            /\ The(Positions(a, "-b:a")) < The(FlagPositions(a, "-movflags", "+faststart"))

\* C5 witness: exec is in flight with the argument list of the settings
\* medium, 23, 720p, 128k, metadata preserved.
C5_Witness ==
    \E c \in ExecCalls :
        /\ c.settings = [preset |-> "medium", crf |-> 23, resolution |-> "720p",
                         audioBitrate |-> "128k", copyMetadata |-> TRUE]
        /\ c.args = <<"-i", "input.mp4", "-map_metadata", "0", "-movflags",
                      "use_metadata_tags", "-c:v", "libx264", "-preset", "medium",
                      "-crf", "23", "-vf", "scale=-2:720", "-c:a", "aac", "-b:a",
                      "128k", "-movflags", "+faststart", "output.mp4">>

\* C6: for every valid EncodeSettings, with copyMetadata the metadata-copy
\* flags (-map_metadata 0 and -movflags use_metadata_tags) are in the list
\* before the video codec flag; without it no metadata-copy flag is in the list.
C6_MetadataFlags ==
    \A c \in ExecCalls :
        LET a == c.args
            s == c.settings
        IN  /\ s \in EncodeSettings
            /\ s.copyMetadata =>
                /\ Once(FlagPositions(a, "-map_metadata", "0"))
                /\ Once(FlagPositions(a, "-movflags", "use_metadata_tags"))
                /\ \A i \in FlagPositions(a, "-map_metadata", "0")
                            \cup FlagPositions(a, "-movflags", "use_metadata_tags") :
                        \A v \in Positions(a, "-c:v") : i + 1 < v
                /\ Positions(a, "-c:v") # {}
            /\ ~s.copyMetadata =>
                /\ Positions(a, "-map_metadata") = {}
                /\ Positions(a, "use_metadata_tags") = {}
                /\ \A i \in Positions(a, "-movflags") : a[i + 1] = "+faststart"

\* C6 witness: exec is in flight for settings without metadata preservation.
C6_Witness ==
    \E c \in ExecCalls :
        /\ ~c.settings.copyMetadata
        /\ c.args[3] = "-c:v"

\* C7: for every valid EncodeSettings, with resolution source the list holds
\* no scale filter; otherwise it holds exactly one, -vf scale=-2:<height> with
\* the height requested, after the codec, preset and quality flags and before
\* the audio flags.
C7_ScaleFilter ==
    \A c \in ExecCalls :
        LET a == c.args
            s == c.settings
            scales == {i \in 1..Len(a) : Len(a[i]) >= 6 /\ SubSeq(a[i], 1, 6) = "scale="}
        IN  /\ s \in EncodeSettings
            /\ s.resolution = "source" => Positions(a, "-vf") = {} /\ scales = {}
            /\ s.resolution # "source" =>
                /\ Once(Positions(a, "-vf"))
                /\ Once(scales)
                /\ Once(FlagPositions(a, "-vf", "scale=-2:" \o HeightText[s.resolution]))
                /\ \A i \in Positions(a, "-c:v") \cup Positions(a, "-preset")
                            \cup Positions(a, "-crf") : i + 1 < The(Positions(a, "-vf"))
                /\ \A i \in Positions(a, "-c:a") \cup Positions(a, "-b:a") :
                        The(Positions(a, "-vf")) + 1 < i
                /\ Positions(a, "-crf") # {} /\ Positions(a, "-c:a") # {}

\* C7 witness: exec is in flight with a scale filter to 1080 lines, and the
\* settings ask for 1080p.
C7_Witness ==
    \E c \in ExecCalls :
        /\ c.settings.resolution = "1080p"
        /\ FlagPositions(c.args, "-vf", "scale=-2:1080") # {}


\* A step in which start() is entered again after a job that ended done or failed
ReRun ==
    /\ JobStatus \in {"done", "failed"}
    /\ \E j \in JobIds : jobs[j].pc \notin InTry /\ jobs'[j].pc \in InTry

\* C11 (as claimed): every new run after a done or failed job, by a new file
\* pick or by start() on the same file, leaves progress at 0, the log empty
\* and the result cleared.
C11_NewRunResets ==
    [][((JobStatus \in {"done", "failed"} /\ file' # file) \/ ReRun)
        => /\ progress' = 0
           /\ logLines' = <<>>
           /\ outputBlob' = NoBlob]_vars


\* A step in which exec, or the read of the output after it, throws in job j
Throws(j) ==
    \/ jobs[j].pc = "exec" /\ jobs'[j].pc \notin {"exec", "readFile"}
    \/ jobs[j].pc = "readFile" /\ jobs'[j].pc # "readFile" /\ fs.output = NoData

\* C12: the step in which exec or the following read of the output throws
\* raises the failure alert, leaves the job failed: not encoding, without a
\* result and with progress as it was (not set to 100), and leaves the start
\* button enabled with a free call of start(), so that the user can retry.
C12_FailureHandled ==
    [][\A j \in JobIds :
        Throws(j)
            => /\ jobs'[j].alerted /\ ~jobs[j].alerted
               /\ jobs'[j].result = "failed"
               /\ JobStatus' = "failed"
               /\ ~processing'
               /\ outputBlob' = NoBlob
               /\ progress' = progress
               /\ ~StartDisabled'
               /\ \E k \in JobIds : FreeSlot(k)']_vars

\* C12 witness: a job has failed with its alert raised and the start button
\* is enabled again.
C12_Witness ==
    /\ JobStatus = "failed"
    /\ jobs[cur].alerted
    /\ outputBlob = NoBlob
    /\ ~processing
    /\ ~StartDisabled


\* The deleteFile calls of job j for the given name that are in flight
Deletions(j, name) ==
    {i \in CallsInFlight({"deleteFile"}) : queue[i].job = j /\ queue[i].name = name}

\* C13 (as claimed): when a job's try block ends, done or failed, the deletion
\* of the input is sent; when that deletion is answered the deletion of the
\* output is sent; and the answer to a deletion, failing or not, changes
\* neither the job's status and alert nor the result, progress and encoding
\* flag on the screen, and the same deletion is not sent again.
C13_BothDeletionsAttempted ==
    [][\A j \in JobIds :
        /\ (jobs[j].pc \in InTry /\ jobs'[j].result \in {"done", "failed"})
            => jobs'[j].pc = "deleteInput" /\ Deletions(j, inputName)' # {}
        /\ (jobs[j].pc = "deleteInput" /\ jobs'[j].pc # "deleteInput")
            => /\ jobs'[j].pc = "deleteOutput"
               /\ Deletions(j, outputName)' # {}
               /\ Deletions(j, inputName)' = {}
        /\ (jobs[j].pc = "deleteOutput" /\ jobs'[j].pc # "deleteOutput")
            => Deletions(j, inputName)' = {} /\ Deletions(j, outputName)' = {}
        /\ (jobs[j].pc \in {"deleteInput", "deleteOutput"} /\ jobs'[j].pc # jobs[j].pc)
            => /\ jobs'[j].result = jobs[j].result
               /\ jobs'[j].alerted = jobs[j].alerted
               /\ UNCHANGED <<outputBlob, progress, processing>>]_vars


\* The calls of load() that are between their first await and their end
Loading == {i \in 1..MaxEffectRuns : loadPc[i] \in {"coreURL", "wasmURL", "workerURL", "load"}}

\* C14: at most one load is in flight, at most one encoder instance is created
\* and it has one pair of log and progress subscriptions, and every call of
\* load() after the first returns at once: it changes neither the instance,
\* the subscriptions, the load in flight, the ready flag nor the message.
C14_SingleLoad ==
    /\ [](/\ Cardinality(Loading) <= 1
          /\ created <= 1
          /\ listeners = created
          /\ ffmpegRef = created
          /\ effectRuns >= 1 => created = 1
          /\ \A i \in 2..effectRuns : loadPc[i] = "returned")
    /\ [][(effectRuns >= 1 /\ effectRuns' = effectRuns + 1)
            => /\ UNCHANGED <<ffmpegRef, created, listeners, ffmpegReady, loadingMsg>>
               /\ \A i \in 1..effectRuns : loadPc'[i] = loadPc[i]]_vars

\* C14 witness: the mount effect has run a second time while the first load
\* was in flight, and returned.
C14_Witness ==
    /\ effectRuns = 2
    /\ loadPc[1] \in {"coreURL", "wasmURL", "workerURL", "load"}
    /\ loadPc[2] = "returned"
    /\ created = 1


\* A step in which the log handler has appended a line
LogEvent == logLines' # logLines /\ logLines' # <<>>

\* C15: a log event never lowers progress, and if it changes progress the
\* new value is at most 95.
C15_NudgeUpToCeiling ==
    [][LogEvent => /\ progress' >= progress
                   /\ progress' # progress => progress' <= 2 * HeuristicCeiling]_vars

\* C15 witness: log lines with a timestamp have nudged progress from the 94
\* percent the encoder reported to the ceiling of 95.
C15_Witness ==
    /\ progress = 2 * HeuristicCeiling
    /\ logLines # <<>>
    /\ \A i \in 1..Len(logLines) : TimeRegexTest(logLines[i])


\* The position of start() at which the given call is awaited
PcOf(call) ==
    IF call.op = "deleteFile"
    THEN (IF call.name = inputName THEN "deleteInput" ELSE "deleteOutput")
    ELSE call.op

\* The positions start() may move to from the given one
After(pc) ==
    CASE pc \in {"idle", "finished"} -> {"fetchFile"}
      [] pc = "fetchFile"            -> {"writeFile", "rejected"}
      [] pc = "writeFile"            -> {"exec", "rejected"}
      [] pc = "exec"                 -> {"readFile", "deleteInput"}
      [] pc = "readFile"             -> {"deleteInput"}
      [] pc = "deleteInput"          -> {"deleteOutput", "finished"}
      [] pc = "deleteOutput"         -> {"finished"}
      [] OTHER                       -> {}

\* C16: a job has at most one encoder call in flight, the one its start() is
\* awaiting, and start() moves through write, exec, read and cleanup in that
\* order; while an exec is in flight the encoder is loaded, the job has a file
\* and the write of that file has completed; a read is in flight only after
\* exec has resolved; a deletion is in flight only after the try block ended.
C16_CallOrder ==
    /\ [](/\ \A i \in 1..Len(queue) : jobs[queue[i].job].pc = PcOf(queue[i])
          /\ \A i, k \in 1..Len(queue) : queue[i].job = queue[k].job => i = k
          /\ \A i \in CallsInFlight({"exec"}) :
                /\ ffmpegReady
                /\ jobs[queue[i].job].file # NoFile
                /\ fs.input = fetchFile(jobs[queue[i].job].file)
          /\ \A i \in CallsInFlight({"readFile"}) : jobs[queue[i].job].exit # "none"
          /\ \A i \in CallsInFlight({"deleteFile"}) :
                jobs[queue[i].job].result \in {"done", "failed"})
    /\ [][\A j \in JobIds : jobs'[j].pc # jobs[j].pc => jobs'[j].pc \in After(jobs[j].pc)]_vars

\* C16 witness: a job that went through write, exec and read is at its last
\* call, the deletion of the output.
C16_Witness ==
    /\ cur # 0
    /\ jobs[cur].pc = "deleteOutput"
    /\ jobs[cur].result = "done"
    /\ jobs[cur].exit = "0"
    /\ Deletions(cur, outputName) # {}


\* A step in which the progress handler has set progress (a file pick sets it to 0)
ProgressEvent ==
    /\ ExecRunning
    /\ progress' # progress
    /\ progress' # 0
    /\ UNCHANGED <<logLines, file, outputBlob, processing, jobs, queue>>

\* C17 (as claimed): every log event appends its message once at the end of
\* the log, cut to the last 200, and has on progress the effect of one
\* application of the heuristic to the progress before it; every progress
\* event sets progress to the value it reports.
C17_EventsAppliedOnceInOrder ==
    [][/\ LogEvent =>
            \E m \in LogMessages :
                /\ logLines' = CapLog(Append(logLines, m))
                /\ progress' = IF TimeRegexTest(m) THEN Nudge(progress) ELSE progress
       /\ ProgressEvent =>
            \E r \in ProgressReports :
                ~isNaN(r) /\ progress' = ProgressValue(r.permille)]_vars


\* C18: the settings of a job are those on the screen when start() was
\* called and stay the same while the job is in its try block, whatever the
\* controls are set to meanwhile; the arguments of the job's exec, and those
\* its output was encoded with, are built from them.
C18_SettingsSnapshot ==
    /\ [](/\ \A c \in ExecCalls : c.args = BuildArgs(c.settings)
          /\ \A j \in JobIds :
                (jobs[j].pc = "readFile" /\ jobs[j].exit = "0")
                    => fs.output.args = BuildArgs(jobs[j].settings))
    /\ [][\A j \in JobIds :
            /\ (jobs[j].pc \notin InTry /\ jobs'[j].pc \in InTry)
                => jobs'[j].settings = settings
            /\ (jobs[j].pc \in InTry /\ jobs'[j].pc \in InTry)
                => jobs'[j].settings = jobs[j].settings]_vars

\* C18 witness: exec is in flight with the arguments of the settings at the
\* start, and the controls have been moved to other settings since.
C18_Witness ==
    \E c \in ExecCalls :
        /\ c.settings = DefaultSettings
        /\ c.args = BuildArgs(DefaultSettings)
        /\ settings.crf # c.settings.crf
        /\ settings.copyMetadata # c.settings.copyMetadata
        /\ BuildArgs(settings) # c.args


\* C19 (as claimed): a call of start() whose awaited calls have all resolved
\* or rejected up to the end of its try block has ended done or failed, and
\* if it is the latest call the encoding flag is false again. (Each awaited
\* call is answered by one step, so a job that stays encoding for ever after
\* all its calls were answered shows as a state in which this fails.)
C19_EveryStartTerminates ==
    \A j \in JobIds :
        jobs[j].pc \notin InTry \cup {"idle"}
            => /\ jobs[j].result \in {"done", "failed"}
               /\ j = cur => ~processing


\* The deleteFile calls in flight of jobs other than the latest
OldDeletions == {i \in CallsInFlight({"deleteFile"}) : queue[i].job # cur}

\* C20: whatever deletions of earlier jobs are in flight, while the exec of a
\* job is in flight the input in the encoder's storage is the one the job
\* wrote, and while the read after an exec that wrote the output is in flight
\* the output in storage is that exec's.
C20_CleanupDoesNotInterfere ==
    /\ \A i \in CallsInFlight({"exec"}) :
            fs.input = fetchFile(jobs[queue[i].job].file)
    /\ \A i \in CallsInFlight({"readFile"}) :
            jobs[queue[i].job].exit = "0"
                => fs.output = Encode(fetchFile(jobs[queue[i].job].file),
                                      BuildArgs(jobs[queue[i].job].settings))

\* C20 witness: the exec of a job is in flight behind the deletion of the
\* output of the job before it.
C20_Witness ==
    /\ OldDeletions # {}
    /\ \E i \in CallsInFlight({"exec"}) :
            /\ queue[i].job = cur
            /\ \E k \in OldDeletions : k < i /\ queue[k].name = outputName
    /\ fs.input = fetchFile(jobs[cur].file)

=============================================================================
